---- MODULE Spec2Model ----
(***************************************************************************)
(* State-machine model of upc_webscrapper.py: the batch loop around        *)
(* crew.kickoff, the four-task sequential crew, and the retry loop of      *)
(* CleanScrapedDataTool._run.                                              *)
(*                                                                         *)
(* Text is a sequence of symbols (one-character strings; the error         *)
(* sentinel of _run is a single symbol).  An optional value (None, a file  *)
(* that may be absent) is the empty tuple or a one-element tuple.          *)
(***************************************************************************)
EXTENDS Integers, Sequences, FiniteSets, TLC

\* ------------------------------------------------------------------ bounds
MaxRecords == 3
MaxRetries == 2

\* -------------------------------------------------------------- text values
None == <<>>
Some(v) == <<v>>

\* contents the writer agent may leave in output/output_upc_search.json
ArtifactTexts == { <<"{", "a", "}">>, <<"{", "b", "b", "}">> }
EmptyText == <<>>
\* content of a file left over from an earlier program run
StaleText == <<"o", "l", "d">>

\* candidates[0].content.parts[0].text values the generative service may give
TxtUpc == <<"\"", "U", "P", "C", "\"">>
TxtSku == <<"\"", "S", "K", "U", "\"">>
TxtUpcNull == <<"\"", "U", "P", "C", "\"", "n", "u", "l", "l">>
TxtBare == <<"U", "P", "C">>
\* a response is None (no candidates) or Some(text)
Responses == { None, Some(TxtUpc), Some(TxtSku), Some(TxtUpcNull),
               Some(TxtBare), Some(EmptyText) }

MarkUPC == <<"\"", "U", "P", "C", "\"">>
MarkSKU == <<"\"", "S", "K", "U", "\"">>
MarkNull == <<"n", "u", "l", "l">>
Sentinel == <<"Error: No valid response after retries from Gemini">>

\* ------------------------------------------------------------ pure helpers
\* needle occurs in hay starting at position i
OccursAt(needle, hay, i) ==
    /\ i + Len(needle) - 1 <= Len(hay)
    /\ \A k \in 1..Len(needle) : hay[i + k - 1] = needle[k]

\* Python `needle in hay`
Contains(needle, hay) ==
    \E i \in 1..(Len(hay) + 1) : OccursAt(needle, hay, i)

\* Python hay.count(needle): non-overlapping occurrences, scanning from i
RECURSIVE CountFrom(_, _, _)
CountFrom(needle, hay, i) ==
    IF i + Len(needle) - 1 > Len(hay) THEN 0
    ELSE IF OccursAt(needle, hay, i)
         THEN 1 + CountFrom(needle, hay, i + Len(needle))
         ELSE CountFrom(needle, hay, i + 1)

Count(needle, hay) == CountFrom(needle, hay, 1)

\* the acceptance test of one attempt
Accepts(text) ==
    /\ Contains(MarkUPC, text) \/ Contains(MarkSKU, text)
    /\ Count(MarkNull, text) = 0

\* `while attempt <= retries`
WhileCond(a, r) == a <= r

\* faulty variant: the final expression always gives the sentinel
ReturnValueAlwaysSentinel(co) == Sentinel
\* `cleaned_output if cleaned_output else "Error: ..."`
ReturnValue(co) == IF co # None /\ co[1] # EmptyText THEN co[1] ELSE Sentinel

\* faulty variant: the separator is also put after the last entry
RECURSIVE JoinTrailing(_, _)
JoinTrailing(sep, parts) ==
    IF parts = <<>> THEN <<>>
    ELSE Head(parts) \o sep \o JoinTrailing(sep, Tail(parts))
\* Python sep.join(parts)
RECURSIVE Join(_, _)
Join(sep, parts) ==
    IF parts = <<>> THEN <<>>
    ELSE IF Len(parts) = 1 THEN Head(parts)
    ELSE Head(parts) \o sep \o Join(sep, Tail(parts))

\* "[\n" + ",\n".join(final_results) + "\n]"
FinalResultsString(results) ==
    <<"[", "\n">> \o Join(<<",", "\n">>, results) \o <<"\n", "]">>

\* faulty variant: the file is left in place
RemoveIfExistsNoop(f) == f
\* `if os.path.exists(p): os.remove(p)`
RemoveIfExists(f) == None

\* faulty variant: the size test is dropped
HasDataNoSizeTest(f) == f # None
\* `os.path.exists(p) and os.path.getsize(p) > 0`
HasData(f) == f # None /\ Len(f[1]) > 0

\* faulty variant: the new entry is put in front
AppendResultInFront(results, raw) == <<raw>> \o results
\* final_results.append(raw_data)
AppendResult(results, raw) == Append(results, raw)

\* faulty variant: the write task is listed before the cleaning task
tasksWriteBeforeClean == <<"Search", "Scrape", "Write", "Clean">>
\* tasks=[search_task, upc_scraping_task, cleaning_task, write_to_json_task]
tasks == <<"Search", "Scrape", "Clean", "Write">>

\* faulty variant: the batch loop swallows the exception and reads the artifact
AfterRaiseCaught == "check"
\* nothing around crew.kickoff catches: the exception leaves the program
AfterRaise == "aborted"

StageOutputs == {"ok", "error"}
\* what the write task leaves: nothing, an empty file, or a text
WriteOutcomes == { None, Some(EmptyText) } \cup { Some(t) : t \in ArtifactTexts }

\* ------------------------------------------------------------------- state
VARIABLES
    pc,             \* position in the module-level script
    file,           \* output/output_upc_search.json: None or Some(text)
    finalFile,      \* output/final_results.txt: None or Some(text)
    inputs_list,    \* the loaded records (their indices)
    idx,            \* index of the record of the current loop iteration
    final_results,  \* texts collected so far
    log,            \* lines printed by the batch loop
    stage,          \* index into tasks of the next task of the running crew
    trace,          \* tasks started in the current kickoff, in order
    outs,           \* outputs of the tasks finished in the current kickoff
    wrote,          \* per record: what its write task left (None: nothing)
    raisedAt,       \* 0, or the record during whose kickoff a call raised
    tpc,            \* position inside CleanScrapedDataTool._run
    retries, attempt, cleaned_output,
    calls,          \* generate_content calls of the current _run
    sleeps,         \* time.sleep(1) calls of the current _run
    toolLog,        \* lines printed by the current _run
    firstOk,        \* None or <<k, text>>: first call whose response passes the test
    ret             \* None or Some(value returned by _run)

batchVars == <<pc, file, finalFile, inputs_list, idx, final_results, log,
               stage, trace, outs, wrote, raisedAt>>
toolVars == <<tpc, retries, attempt, cleaned_output, calls, sleeps, toolLog,
              firstOk, ret>>
vars == <<pc, file, finalFile, inputs_list, idx, final_results, log,
          stage, trace, outs, wrote, raisedAt,
          tpc, retries, attempt, cleaned_output, calls, sleeps, toolLog,
          firstOk, ret>>

ToolIdle ==
    /\ tpc = "idle" /\ retries = 0 /\ attempt = 0 /\ cleaned_output = None
    /\ calls = 0 /\ sleeps = 0 /\ toolLog = <<>> /\ firstOk = None
    /\ ret = None

Init ==
    /\ pc = "start"
    /\ file \in { None, Some(StaleText) }
    /\ finalFile = None
    /\ inputs_list = <<>>
    /\ idx = 0
    /\ final_results = <<>>
    /\ log = <<>>
    /\ stage = 0
    /\ trace = <<>>
    /\ outs = <<>>
    /\ wrote = <<>>
    /\ raisedAt = 0
    /\ ToolIdle

\* ------------------------------------------------------------ batch runner
\* lines 196-199
DeleteBefore ==
    /\ pc = "start"
    /\ file' = RemoveIfExists(file)
    /\ pc' = "load"
    /\ UNCHANGED <<finalFile, inputs_list, idx, final_results, log, stage,
                   trace, outs, wrote, raisedAt>>
    /\ UNCHANGED toolVars

\* lines 201-206
LoadInputs ==
    /\ pc = "load"
    /\ \E n \in 0..MaxRecords : inputs_list' = [i \in 1..n |-> i]
    /\ final_results' = <<>>
    /\ pc' = "loop"
    /\ UNCHANGED <<file, finalFile, idx, log, stage, trace, outs, wrote,
                   raisedAt>>
    /\ UNCHANGED toolVars

\* lines 209-219: next record, new search task, new crew, kickoff begins
StartRecord ==
    /\ pc = "loop"
    /\ idx < Len(inputs_list)
    /\ idx' = idx + 1
    /\ log' = Append(log, <<"Processing", idx + 1>>)
    /\ stage' = 1
    /\ trace' = <<>>
    /\ outs' = <<>>
    /\ wrote' = Append(wrote, None)
    /\ pc' = "kickoff"
    /\ UNCHANGED <<file, finalFile, inputs_list, final_results, raisedAt>>
    /\ UNCHANGED toolVars

\* a search or scrape task runs; its output, error string or not, is passed on
RunExternal(name) ==
    /\ pc = "kickoff"
    /\ stage <= Len(tasks)
    /\ tasks[stage] = name
    /\ trace' = Append(trace, name)
    /\ \E o \in StageOutputs : outs' = Append(outs, o)
    /\ stage' = stage + 1
    /\ UNCHANGED <<pc, file, finalFile, inputs_list, idx, final_results, log,
                   wrote, raisedAt>>
    /\ UNCHANGED toolVars

SearchStage == RunExternal("Search")

ScrapeStage == RunExternal("Scrape")

\* the cleaning task starts and its agent calls _run(scraped_data, retries)
CleanBegin ==
    /\ pc = "kickoff"
    /\ stage <= Len(tasks)
    /\ tasks[stage] = "Clean"
    /\ tpc = "idle"
    /\ trace' = Append(trace, "Clean")
    /\ \E r \in (-1)..MaxRetries : retries' = r
    /\ attempt' = 0
    /\ cleaned_output' = None
    /\ tpc' = "loop"
    /\ UNCHANGED <<calls, sleeps, toolLog, firstOk, ret>>
    /\ UNCHANGED <<pc, file, finalFile, inputs_list, idx, final_results, log,
                   stage, outs, wrote, raisedAt>>

\* lines 44-80: one iteration of the while loop
CleanAttempt ==
    /\ tpc = "loop"
    /\ WhileCond(attempt, retries)
    /\ \E resp \in Responses :
        /\ calls' = calls + 1
        /\ firstOk' = IF firstOk = None /\ resp # None /\ Accepts(resp[1])
                      THEN <<calls + 1, resp[1]>> ELSE firstOk
        /\ IF resp # None
           THEN /\ cleaned_output' = resp
                /\ IF Accepts(resp[1])
                   THEN /\ toolLog' = Append(toolLog, <<attempt + 1, "found">>)
                        /\ tpc' = "break"
                        /\ UNCHANGED <<attempt, sleeps>>
                   ELSE /\ toolLog' = Append(toolLog, <<attempt + 1, "retrying">>)
                        /\ attempt' = attempt + 1
                        /\ sleeps' = sleeps + 1
                        /\ tpc' = "loop"
           ELSE /\ attempt' = attempt + 1
                /\ sleeps' = sleeps + 1
                /\ tpc' = "loop"
                /\ UNCHANGED <<cleaned_output, toolLog>>
    /\ UNCHANGED <<retries, ret>>
    /\ UNCHANGED batchVars

\* line 82, reached from the break or from a false loop condition
CleanReturn ==
    /\ \/ tpc = "break"
       \/ tpc = "loop" /\ ~WhileCond(attempt, retries)
    /\ ret' = Some(ReturnValue(cleaned_output))
    /\ tpc' = "returned"
    /\ UNCHANGED <<retries, attempt, cleaned_output, calls, sleeps, toolLog,
                   firstOk>>
    /\ UNCHANGED batchVars

\* the cleaning task finishes with the agent's output; the tool call is over
CleanDone ==
    /\ pc = "kickoff"
    /\ tpc = "returned"
    /\ \E o \in StageOutputs : outs' = Append(outs, o)
    /\ stage' = stage + 1
    /\ tpc' = "idle" /\ retries' = 0 /\ attempt' = 0 /\ cleaned_output' = None
    /\ calls' = 0 /\ sleeps' = 0 /\ toolLog' = <<>> /\ firstOk' = None
    /\ ret' = None
    /\ UNCHANGED <<pc, file, finalFile, inputs_list, idx, final_results, log,
                   trace, wrote, raisedAt>>

\* lines 174-179: the write task, output_file = the shared artifact
WriteStage ==
    /\ pc = "kickoff"
    /\ stage <= Len(tasks)
    /\ tasks[stage] = "Write"
    /\ tpc = "idle"
    /\ trace' = Append(trace, "Write")
    /\ \E w \in WriteOutcomes :
        /\ file' = IF w = None THEN file ELSE w
        /\ wrote' = [wrote EXCEPT ![idx] = w]
    /\ outs' = Append(outs, "ok")
    /\ stage' = stage + 1
    /\ UNCHANGED <<pc, finalFile, inputs_list, idx, final_results, log,
                   raisedAt>>
    /\ UNCHANGED toolVars

\* a task's external call raises; line 219 has no handler
KickoffRaise ==
    /\ pc = "kickoff"
    /\ stage <= Len(tasks)
    /\ tpc = "idle"
    /\ trace' = Append(trace, tasks[stage])
    /\ raisedAt' = idx
    /\ pc' = AfterRaise
    /\ UNCHANGED <<file, finalFile, inputs_list, idx, final_results, log,
                   stage, outs, wrote>>
    /\ UNCHANGED toolVars

\* lines 62-66: generate_content raises inside _run, which has no handler
GenerateRaise ==
    /\ pc = "kickoff"
    /\ tpc = "loop"
    /\ WhileCond(attempt, retries)
    /\ calls' = calls + 1
    /\ tpc' = "raised"
    /\ raisedAt' = idx
    /\ pc' = AfterRaise
    /\ UNCHANGED <<retries, attempt, cleaned_output, sleeps, toolLog, firstOk,
                   ret>>
    /\ UNCHANGED <<file, finalFile, inputs_list, idx, final_results, log,
                   stage, trace, outs, wrote>>

\* Process.sequential: kickoff returns after the last task
KickoffReturn ==
    /\ pc = "kickoff"
    /\ stage > Len(tasks)
    /\ tpc = "idle"
    /\ pc' = "check"
    /\ UNCHANGED <<file, finalFile, inputs_list, idx, final_results, log,
                   stage, trace, outs, wrote, raisedAt>>
    /\ UNCHANGED toolVars

\* lines 221-234
CollectResult ==
    /\ pc = "check"
    /\ IF HasData(file)
       THEN \E readOk \in BOOLEAN :
              IF readOk
              THEN /\ final_results' = AppendResult(final_results, file[1])
                   /\ log' = Append(log, <<"Finished", idx>>)
              ELSE /\ final_results' = final_results
                   /\ log' = log \o << <<"ReadError", idx>>, <<"Finished", idx>> >>
       ELSE /\ final_results' = final_results
            /\ log' = log \o << <<"Skip", idx>>, <<"Finished", idx>> >>
    /\ pc' = "loop"
    /\ UNCHANGED <<file, finalFile, inputs_list, idx, stage, trace, outs,
                   wrote, raisedAt>>
    /\ UNCHANGED toolVars

\* lines 236-244
WriteFinal ==
    /\ pc = "loop"
    /\ idx >= Len(inputs_list)
    /\ finalFile' = Some(FinalResultsString(final_results))
    /\ pc' = "delete_after"
    /\ UNCHANGED <<file, inputs_list, idx, final_results, log, stage, trace,
                   outs, wrote, raisedAt>>
    /\ UNCHANGED toolVars

\* lines 246-248
DeleteAfter ==
    /\ pc = "delete_after"
    /\ file' = RemoveIfExists(file)
    /\ pc' = "done"
    /\ UNCHANGED <<finalFile, inputs_list, idx, final_results, log, stage,
                   trace, outs, wrote, raisedAt>>
    /\ UNCHANGED toolVars

Next ==
    \/ DeleteBefore
    \/ LoadInputs
    \/ StartRecord
    \/ SearchStage
    \/ ScrapeStage
    \/ CleanBegin
    \/ CleanAttempt
    \/ CleanReturn
    \/ CleanDone
    \/ WriteStage
    \/ KickoffRaise
    \/ GenerateRaise
    \/ KickoffReturn
    \/ CollectResult
    \/ WriteFinal
    \/ DeleteAfter

Spec == Init /\ [][Next]_vars

\* ------------------------------------------------------------ observations
Logged(kind, i) == \E k \in 1..Len(log) : log[k] = <<kind, i>>

Finished == { i \in 1..Len(wrote) : Logged("Finished", i) }

Skipped == { i \in 1..Len(wrote) : Logged("Skip", i) }

ReadFailed == { i \in 1..Len(wrote) : Logged("ReadError", i) }

\* record i finished and neither a skip nor a read error was printed for it
AppendedFor(i) ==
    Logged("Finished", i) /\ ~Logged("Skip", i) /\ ~Logged("ReadError", i)

LoopOver ==
    \/ pc \in {"delete_after", "done"}
    \/ pc = "loop" /\ idx >= Len(inputs_list)

\* every record's run left a non-empty artifact and every read-back worked
AllRunsLeftText ==
    /\ Len(wrote) = Len(inputs_list)
    /\ \A i \in 1..Len(wrote) : wrote[i] # None /\ wrote[i][1] # EmptyText
    /\ ReadFailed = {}

\* the acceptance test as the specification words it
HasMarker(text) ==
    \E i \in 1..Len(text) :
        /\ i + 4 <= Len(text)
        /\ SubSeq(text, i, i + 4) \in { MarkUPC, MarkSKU }

HasNull(text) ==
    \E i \in 1..Len(text) :
        i + 3 <= Len(text) /\ SubSeq(text, i, i + 3) = MarkNull

PassesTest(text) == HasMarker(text) /\ ~HasNull(text)

RECURSIVE LenSum(_, _)
LenSum(parts, k) == IF k <= 0 THEN 0 ELSE Len(parts[k]) + LenSum(parts, k - 1)

\* position just before entry k in the final text
Offset(parts, k) == 2 + LenSum(parts, k - 1) + 2 * (k - 1)

StageOrder == <<"Search", "Scrape", "Clean", "Write">>

\* ------------------------------------------------------------------ claims

\* C1: when every record's run succeeds and leaves a non-empty artifact,
\* final_results has one entry per input record after the loop, and entry i
\* is the text written during the run of record i.
C1_OrderPreserved ==
    (LoopOver /\ raisedAt = 0 /\ AllRunsLeftText) =>
        /\ Len(final_results) = Len(inputs_list)
        /\ \A i \in 1..Len(inputs_list) : final_results[i] = wrote[i][1]

C1_Witness ==
    /\ pc = "done"
    /\ AllRunsLeftText
    /\ Len(inputs_list) >= 2
    /\ wrote[1] # wrote[2]

\* C2: when no response passes the acceptance test and retries >= 0, _run
\* makes exactly retries + 1 service calls and returns the error sentinel.
C2_ExhaustionGivesSentinel ==
    (tpc = "returned" /\ retries >= 0 /\ firstOk = None) =>
        /\ calls = retries + 1
        /\ ret = Some(Sentinel)

\* C3: the first response that passes the acceptance test ends the loop:
\* it is the last service call, no delay follows it, and _run returns its
\* text; an accepted first response means exactly one call.
C3_AcceptStopsAtOnce ==
    firstOk # None =>
        /\ tpc \in {"break", "returned"}
        /\ PassesTest(firstOk[2])
        /\ calls = firstOk[1]
        /\ sleeps = firstOk[1] - 1
        /\ cleaned_output = Some(firstOk[2])
        /\ toolLog[Len(toolLog)][2] = "found"
        /\ tpc = "returned" => ret = Some(firstOk[2])

C3_Witness ==
    /\ tpc = "returned"
    /\ firstOk # None
    /\ firstOk[1] = 2
    /\ retries = 2

C5_SkipAppendsNothing ==
    /\ [](Len(final_results) =
            Cardinality(Finished) - Cardinality(Skipped) - Cardinality(ReadFailed))
    /\ [][(pc = "check" /\ (file = None \/ file = Some(EmptyText))) =>
            /\ final_results' = final_results
            /\ log' = log \o << <<"Skip", idx>>, <<"Finished", idx>> >>
            /\ pc' = "loop"]_vars

C5_Witness ==
    /\ pc = "done"
    /\ Len(inputs_list) = 3
    /\ wrote[1] = None /\ Logged("Skip", 1)
    /\ wrote[2] = Some(EmptyText) /\ Logged("Skip", 2)
    /\ AppendedFor(3)
    /\ Len(final_results) = 1

\* C6: the text written to output/final_results.txt is "[\n", the collected
\* entries in order, each unmodified and separated by ",\n", then "\n]",
\* for every number of entries including none and one.
C6_FinalArtifactFormat ==
    pc \in {"delete_after", "done"} =>
        /\ finalFile # None
        /\ LET s == finalFile[1]
               n == Len(final_results)
           IN /\ Len(s) = 4 + LenSum(final_results, n)
                            + (IF n = 0 THEN 0 ELSE 2 * (n - 1))
              /\ s[1] = "[" /\ s[2] = "\n"
              /\ s[Len(s) - 1] = "\n" /\ s[Len(s)] = "]"
              /\ \A k \in 1..n :
                    LET o == Offset(final_results, k)
                        e == final_results[k]
                    IN /\ SubSeq(s, o + 1, o + Len(e)) = e
                       /\ k < n => /\ s[o + Len(e) + 1] = ","
                                   /\ s[o + Len(e) + 2] = "\n"

C6_Witness ==
    /\ pc = "done"
    /\ Len(final_results) = 3
    /\ Len(final_results[1]) # Len(final_results[2])

\* C7: every kickoff runs Search, Scrape, Clean, Write in that order, each
\* once and each after the previous one finished, whatever the outputs
\* were, and the artifact is read only after the write task is done.
C7_StageOrder ==
    /\ Len(trace) <= Len(StageOrder)
    /\ trace = SubSeq(StageOrder, 1, Len(trace))
    /\ Len(outs) <= Len(trace)
    /\ Len(trace) <= Len(outs) + 1
    /\ pc = "check" => (trace = StageOrder /\ Len(outs) = Len(StageOrder))

C7_Witness ==
    /\ pc = "check"
    /\ outs[1] = "error" /\ outs[2] = "error" /\ outs[3] = "error"
    /\ trace = StageOrder

\* C8: a record whose own run wrote no shared artifact is skipped: no
\* entry is appended for it, at any position of the batch.
C8_NoWriteMeansSkipped ==
    \A i \in 1..Len(wrote) :
        (Logged("Finished", i) /\ wrote[i] = None) => ~AppendedFor(i)

\* C9: once a service call has raised during the run of record i, the
\* program has stopped there: no later record is processed, the final
\* artifact is not written, the end-of-batch deletion does not run.
C9_RaiseAbortsBatch ==
    raisedAt # 0 =>
        /\ pc = "aborted"
        /\ idx = raisedAt
        /\ finalFile = None
        /\ ~ENABLED Next

C9_Witness ==
    /\ raisedAt # 0
    /\ tpc = "raised"
    /\ raisedAt < Len(inputs_list)
    /\ file # None

\* C10: _run prints exactly one line for every service call it makes, for
\* every sequence of responses, responses without candidates included.
C10_OneLogLinePerAttempt ==
    tpc \in {"loop", "break", "returned"} =>
        /\ Len(toolLog) = calls
        /\ \A k \in 1..Len(toolLog) : toolLog[k][1] = k

====
